---- MODULE Spec2Model ----
(***************************************************************************)
(* Model of the dp-sidecar release controller: the Laplace count           *)
(* mechanism (dp_mechanism.py), the lifetime budget tracker                *)
(* (budget_tracker.py), the publish tick (window_scheduler.py) and the     *)
(* read path (api.py), over the sidecar store (release_windows,            *)
(* dp_releases, dp_items) and Fider's vote counts.                         *)
(*                                                                         *)
(* Units.  Epsilon is counted in units of EPSILON_PER_QUERY (0.5), so the  *)
(* sums the code computes in floating point are exact here.  A noisy count *)
(* is counted in hundredths: 100 * true_count + noise.  A nullable column  *)
(* or field holds <<>> for NULL/None and <<v>> for the value v.            *)
(***************************************************************************)
EXTENDS Integers, Sequences, FiniteSets, TLC

\* ---------------------------------------------------------------- bounds
NumPosts == 1
MaxCount == 2
MaxNoise == 1
MaxWindows == 3
\* BudgetTracker(lifetime_cap): the greatest cap a tracker is constructed with
MaxCap == 4
\* the posts of the runs that exercise the tick's per-item error handling
IsoPosts == 2

\* ------------------------------------------------------- program constants
THRESHOLD == 1
EPSILON_PER_QUERY == 1

Max(S) == CHOOSE x \in S : \A y \in S : y <= x

\* The worked scenario of the specification: the true count of the tracked
\* item at six successive ticks.
ScenarioCounts == <<3, 3, 7, 7, 11, 15>>

\* post ids and window ids (the keys of the tables); the posts and windows a
\* run creates are bounded in its Next
Posts == 1..Max({NumPosts, IsoPosts})
SpecPosts == 1..NumPosts
Counts == 0..MaxCount
LastWindowId == Max({MaxWindows, Len(ScenarioCounts)})
WindowIds == 1..LastWindowId
\* np.random.laplace: one sample per call, here one of a few offsets (hundredths).
Noise == {7 * k : k \in 0..MaxNoise}

Null == <<>>
NoRow == [status |-> "absent"]

VARIABLES
    lifetime_cap,     \* BudgetTracker.lifetime_cap, fixed at construction
    fider,            \* post_votes of Fider: true count per post
    release_windows,  \* table release_windows: window_id = index
    ended,            \* the active windows whose end_time NOW() has passed
    dp_releases,      \* table dp_releases, keyed (post_id, window_id)
    dp_items,         \* table dp_items, keyed post_id
    pc,               \* position of publish_window_releases
    window_id,        \* the tick's current_window['window_id']
    active_posts,     \* the tick's posts still to process
    txn,              \* the tick's uncommitted writes, per post
    txn_failed,       \* the tick's transaction is in the aborted state
    outcome,          \* per post, the branch the tick took for it
    drew,             \* posts for which the tick called add_laplace_noise
    fresh_commits,    \* per post, fresh draws committed as published (saturating)
    dp_mechanism,     \* a DPMechanism object: its threshold, epsilon, sensitivity
    returned          \* the last call made from outside and what it returned or raised

mech == <<dp_mechanism, returned>>

vars == <<dp_mechanism, returned, lifetime_cap, fider, release_windows, ended, dp_releases, dp_items, pc, window_id,
          active_posts, txn, txn_failed, outcome, drew, fresh_commits>>

store == <<release_windows, ended, dp_releases, dp_items>>
tick == <<pc, window_id, active_posts, txn, txn_failed, outcome, drew>>

\* ------------------------------------------------------------ DPMechanism
CheckThresholdLax(true_count) == true_count >= 0
CheckThreshold(true_count) == true_count >= THRESHOLD

AddLaplaceNoise(true_count, noise) == 100 * true_count + noise

ReleaseCount(true_count, noise) ==
    IF ~CheckThreshold(true_count)
    THEN [noisy_count |-> Null, epsilon_used |-> 0, meets_threshold |-> FALSE]
    ELSE [noisy_count |-> <<AddLaplaceNoise(true_count, noise)>>,
          epsilon_used |-> EPSILON_PER_QUERY, meets_threshold |-> TRUE]

\* round(x, 1) on hundredths: the nearest tenth, a tie going to the even one.
Round1(x) ==
    LET q == x \div 10
        r == x % 10
    IN  IF r < 5 THEN 10 * q
        ELSE IF r > 5 THEN 10 * q + 10
        ELSE IF q % 2 = 0 THEN 10 * q ELSE 10 * q + 10

\* The object DPMechanism(threshold, epsilon, sensitivity) constructs: each
\* attribute is "argument or default", so None and 0 both give the default.
\* epsilon is in units of the default EPSILON_PER_QUERY, SENSITIVITY is 1.
OrDefault(argument, default) ==
    IF argument = Null \/ argument[1] = 0 THEN default ELSE argument[1]

DPMechanismInit(threshold, epsilon, sensitivity) ==
    [threshold |-> OrDefault(threshold, THRESHOLD),
     epsilon |-> OrDefault(epsilon, EPSILON_PER_QUERY),
     sensitivity |-> OrDefault(sensitivity, 1)]

\* np.random.laplace(loc=0, scale=scale) raises ValueError when scale < 0
SelfAddLaplaceNoise(self, true_count, noise) ==
    IF (self.sensitivity < 0) # (self.epsilon < 0)
    THEN "ValueError"
    ELSE <<AddLaplaceNoise(true_count, noise)>>

SelfConfidenceIntervalUnclipped(self, noisy_count) ==
    LET margin == (738 * self.sensitivity) \div self.epsilon
    IN  [lower |-> noisy_count - margin, upper |-> noisy_count + margin]
\* calculate_confidence_interval at confidence 0.95, in hundredths:
\* margin = scale * ln(40) = (sensitivity / epsilon) * 3.69, epsilon in units of 0.5
SelfConfidenceInterval(self, noisy_count) ==
    LET margin == (738 * self.sensitivity) \div self.epsilon
    IN  [lower |-> IF noisy_count - margin > 0 THEN noisy_count - margin ELSE 0,
         upper |-> noisy_count + margin]

NoCall == [op |-> "none"]

\* ------------------------------------------------------------ store reads
HasAnyReleases(p) == \E w \in WindowIds : dp_releases[p][w] # NoRow

IsPublished(p, w) == dp_releases[p][w].status = "published"

PublishedWindows(p) == {w \in WindowIds : IsPublished(p, w)}

\* SELECT ... WHERE post_id = p AND status = 'published' ORDER BY window_id DESC LIMIT 1
LastPublishedWindow(p) ==
    IF PublishedWindows(p) = {} THEN 0 ELSE Max(PublishedWindows(p))

LastPublished(p) ==
    IF PublishedWindows(p) = {} THEN NoRow ELSE dp_releases[p][LastPublishedWindow(p)]

RECURSIVE SumUpTo(_, _, _)
SumUpTo(rows, p, w) ==
    IF w = 0 THEN 0
    ELSE SumUpTo(rows, p, w - 1)
         + (IF rows[p][w].status = "published" THEN rows[p][w].epsilon_used ELSE 0)

\* SELECT COALESCE(SUM(epsilon_used), 0) FROM dp_releases WHERE post_id = p AND status = 'published'
TotalUsed(p) == SumUpTo(dp_releases, p, LastWindowId)

\* ------------------------------------------------------------ BudgetTracker
IsLocked(p) == dp_items[p] # NoRow /\ dp_items[p].is_currently_locked

CheckBudgetNoLock(p, epsilon_needed) ==
    [has_budget |-> lifetime_cap - TotalUsed(p) >= epsilon_needed,
     epsilon_remaining |-> lifetime_cap - TotalUsed(p)]
CheckBudgetStrict(p, epsilon_needed) ==
    [has_budget |-> ~IsLocked(p) /\ lifetime_cap - TotalUsed(p) > epsilon_needed,
     epsilon_remaining |-> lifetime_cap - TotalUsed(p)]
CheckBudget(p, epsilon_needed) ==
    LET epsilon_remaining == lifetime_cap - TotalUsed(p)
    IN  [has_budget |-> IF IsLocked(p) THEN FALSE
                        ELSE epsilon_remaining >= epsilon_needed,
         epsilon_remaining |-> epsilon_remaining]

DoDeductCountedOnce(total_used_before, w, epsilon_used) ==
    [current_window_id |-> w,
     is_currently_locked |-> lifetime_cap - total_used_before < EPSILON_PER_QUERY,
     total_epsilon_spent |-> total_used_before]
\* _do_deduct: total_used_before is the sum the connection sees when it runs.
DoDeduct(total_used_before, w, epsilon_used) ==
    LET total_used_after == total_used_before + epsilon_used
        epsilon_remaining == lifetime_cap - total_used_after
        should_lock == epsilon_remaining < EPSILON_PER_QUERY
    IN  [current_window_id |-> w,
         is_currently_locked |-> should_lock,
         total_epsilon_spent |-> total_used_after]

\* deduct_budget(conn=None): the connection it opens is closed without a commit.
DeductCommitsMut == TRUE
DeductCommits == FALSE

\* --------------------------------------------------------- WindowManager
ActiveWindowsAnyStatus == 1..Len(release_windows)
ActiveWindows == {w \in 1..Len(release_windows) : release_windows[w].status = "active"}
ClosedWindows == {w \in 1..Len(release_windows) : release_windows[w].status = "closed"}

\* get_current_window: 0 stands for None
GetCurrentWindow ==
    LET live == {w \in ActiveWindows : w \notin ended}
    IN  IF live # {} THEN Max(live)
        ELSE IF ClosedWindows # {} THEN Max(ClosedWindows)
        ELSE 0

NewWindowClosed == [status |-> "closed"]
NewWindow == [status |-> "active"]

\* ------------------------------------------------------------- read path
Resp(noisy, meets, message, locked, stale, w) ==
    [noisy_count |-> noisy, epsilon_used |-> 0, meets_threshold |-> meets,
     message |-> message, is_locked |-> locked, is_stale |-> stale, window_id |-> w]

\* The DPCountResponse get_dp_count(p) returns when Fider reports true_count.
GetDpCountResponse(p, true_count) ==
    LET current_window_id == GetCurrentWindow
        last == LastPublished(p)
    IN  IF current_window_id = 0
        THEN Resp(Null, FALSE, "initializing", FALSE, FALSE, Null)
        ELSE IF ~HasAnyReleases(p)
        THEN IF CheckThreshold(true_count)
             THEN Resp(Null, TRUE, "added", FALSE, FALSE, <<current_window_id>>)
             ELSE Resp(Null, FALSE, "insufficient", FALSE, FALSE, <<current_window_id>>)
        ELSE IF IsLocked(p)
        THEN IF last # NoRow /\ last.meets_threshold
             THEN Resp(<<Round1(last.noisy_count[1])>>, TRUE, "locked", TRUE, FALSE,
                       <<LastPublishedWindow(p)>>)
             ELSE Resp(Null, FALSE, "insufficient", TRUE, FALSE, <<current_window_id>>)
        ELSE IF IsPublished(p, current_window_id)
        THEN IF dp_releases[p][current_window_id].meets_threshold
             THEN Resp(<<Round1(dp_releases[p][current_window_id].noisy_count[1])>>,
                       TRUE, "current", FALSE, FALSE, <<current_window_id>>)
             ELSE Resp(Null, FALSE, "insufficient", FALSE, FALSE, <<current_window_id>>)
        ELSE IF last # NoRow /\ last.meets_threshold
             THEN Resp(<<Round1(last.noisy_count[1])>>, TRUE, "stale", FALSE, TRUE,
                       <<LastPublishedWindow(p)>>)
             ELSE Resp(Null, FALSE, "insufficient", FALSE, FALSE, <<current_window_id>>)

\* The row step 3 of get_dp_count inserts for a new post.
DraftRowDrawn(true_count) ==
    [true_count |-> true_count, noisy_count |-> <<AddLaplaceNoise(true_count, 0)>>,
     epsilon_used |-> 0, meets_threshold |-> TRUE, status |-> "draft"]
DraftRowPublished(true_count) ==
    [true_count |-> true_count, noisy_count |-> <<AddLaplaceNoise(true_count, 0)>>,
     epsilon_used |-> 0, meets_threshold |-> TRUE, status |-> "published"]
DraftRow(true_count) ==
    [true_count |-> true_count, noisy_count |-> Null, epsilon_used |-> 0,
     meets_threshold |-> TRUE, status |-> "draft"]

GetDpCount(p) ==
    /\ dp_releases' =
         IF GetCurrentWindow # 0 /\ ~HasAnyReleases(p) /\ CheckThreshold(fider[p])
         THEN [dp_releases EXCEPT ![p][GetCurrentWindow] = DraftRow(fider[p])]
         ELSE dp_releases
    /\ UNCHANGED <<mech, lifetime_cap, fider, release_windows, ended, dp_items, tick,
                   fresh_commits>>

\* get_lifetime_stats: the dictionary it returns
GetLifetimeStats(p) ==
    LET charged == {w \in WindowIds : IsPublished(p, w) /\ dp_releases[p][w].epsilon_used > 0}
        total_used == TotalUsed(p)
        remaining == lifetime_cap - total_used
    IN  [post_id |-> p,
         lifetime_cap |-> lifetime_cap,
         total_epsilon_used |-> total_used,
         epsilon_remaining |-> remaining,
         num_noise_generations |-> Cardinality(charged),
         queries_remaining |-> IF remaining >= EPSILON_PER_QUERY
                               THEN remaining \div EPSILON_PER_QUERY ELSE 0,
         is_locked |-> IsLocked(p)]

\* get_budget_info: reads the statistics, writes nothing
GetBudgetInfo(p) ==
    /\ GetLifetimeStats(p).post_id = p
    /\ UNCHANGED vars

\* deduct_budget called without a connection
DeductBudget(p, w, epsilon_used) ==
    /\ dp_items' = IF DeductCommits
                   THEN [dp_items EXCEPT ![p] = DoDeduct(TotalUsed(p), w, epsilon_used)]
                   ELSE dp_items
    /\ UNCHANGED <<mech, lifetime_cap, fider, release_windows, ended, dp_releases, tick,
                   fresh_commits>>

\* a vote is cast or withdrawn in Fider
VoteChange(p, c) ==
    /\ c # fider[p]
    /\ fider' = [fider EXCEPT ![p] = c]
    /\ UNCHANGED <<mech, lifetime_cap, store, tick, fresh_commits>>

\* NOW() passes the end_time of an active window
Expire(w) ==
    /\ w \in ActiveWindows
    /\ w \notin ended
    /\ ended' = ended \cup {w}
    /\ UNCHANGED <<mech, lifetime_cap, fider, release_windows, dp_releases, dp_items, tick,
                   fresh_commits>>

\* ------------------------------------------------------ publish tick
NoWrite == [kind |-> "none"]

IdleTick ==
    /\ pc' = "idle"
    /\ window_id' = 0
    /\ active_posts' = {}
    /\ txn' = [p \in Posts |-> NoWrite]
    /\ txn_failed' = FALSE
    /\ outcome' = [p \in Posts |-> "none"]
    /\ drew' = {}

\* _create_new_window: INSERT ... 'active' RETURNING window_id; commit
CreateNewWindow ==
    /\ release_windows' = Append(release_windows, NewWindow)
    /\ UNCHANGED ended

\* start_scheduler: one job runs publish_window_releases with max_instances=1.
\* The instances of the job that are running, and whether a trigger that
\* fires now is submitted (otherwise the run is skipped).
MaxInstances == 1
Running == IF pc = "idle" THEN 0 ELSE 1
MaySubmitAlways == TRUE
MaySubmit == Running < MaxInstances

\* The trigger fires while the job's instances are at max_instances: skipped.
TriggerSkipped ==
    /\ ~MaySubmit
    /\ UNCHANGED vars

\* Step 1 with no active window: create one and return.
TickBootstrap ==
    /\ MaySubmit
    /\ ActiveWindows = {}
    /\ CreateNewWindow
    /\ UNCHANGED <<mech, lifetime_cap, fider, dp_releases, dp_items, tick, fresh_commits>>

TrackedPostsNone == {}
\* Step 2: SELECT DISTINCT post_id FROM dp_releases
TrackedPosts == {p \in Posts : HasAnyReleases(p)}

\* Steps 1-2: the active window with the greatest id, and the tracked posts.
TickStart ==
    /\ MaySubmit
    /\ ActiveWindows # {}
    /\ pc' = "loop"
    /\ window_id' = Max(ActiveWindows)
    /\ active_posts' = TrackedPosts
    /\ UNCHANGED <<mech, lifetime_cap, fider, store, txn, txn_failed, outcome, drew, fresh_commits>>

\* A statement that fails on the tick's connection leaves its transaction
\* aborted: later statements on it raise, and its commit applies nothing.
AbortsTransactionNot == FALSE
AbortsTransaction == TRUE

HasBudgetAlways(p) == TRUE
HasBudget(p) == CheckBudget(p, EPSILON_PER_QUERY).has_budget

ReuseRowCharged(true_count, previous_noisy) ==
    [true_count |-> true_count, noisy_count |-> previous_noisy,
     epsilon_used |-> EPSILON_PER_QUERY, meets_threshold |-> TRUE, status |-> "published"]
\* the row of the reuse INSERT (epsilon_used 0.0, previous noisy_count)
ReuseRow(true_count, previous_noisy) ==
    [true_count |-> true_count, noisy_count |-> previous_noisy, epsilon_used |-> 0,
     meets_threshold |-> TRUE, status |-> "published"]

\* the row of the new-noise INSERT
NewRow(true_count, noisy_count) ==
    [true_count |-> true_count, noisy_count |-> <<noisy_count>>,
     epsilon_used |-> EPSILON_PER_QUERY, meets_threshold |-> TRUE,
     status |-> "published"]

\* ON CONFLICT (post_id, window_id) DO UPDATE SET ... of the two INSERTs
Upsert(old, w) ==
    IF old = NoRow THEN w.release
    ELSE IF w.kind = "reuse"
    THEN [old EXCEPT !.noisy_count = w.release.noisy_count, !.status = "published"]
    ELSE [old EXCEPT !.true_count = w.release.true_count,
                     !.noisy_count = w.release.noisy_count,
                     !.epsilon_used = w.release.epsilon_used,
                     !.status = "published"]

\* the sum _do_deduct reads on the tick's connection, after the tick's INSERT
TotalUsedWith(p, w, write) ==
    SumUpTo([dp_releases EXCEPT ![p][w] = Upsert(dp_releases[p][w], write)], p, LastWindowId)

Failures == {"none", "fider", "select", "check", "deduct"}

\* Step 4: one iteration of the post loop.
TickPost(p, fail, noise) ==
    /\ pc = "loop"
    /\ p \in active_posts
    /\ active_posts' = active_posts \ {p}
    /\ LET true_count == fider[p]
           last_published == LastPublished(p)
           noisy_count == AddLaplaceNoise(true_count, noise)
           fresh == [kind |-> "new", release |-> NewRow(true_count, noisy_count),
                     item |-> NoRow]
           reuse == [kind |-> "reuse",
                     release |-> ReuseRow(true_count, last_published.noisy_count),
                     item |-> NoRow]
       IN  IF fail = "fider"
           THEN /\ outcome' = [outcome EXCEPT ![p] = "error"]
                /\ UNCHANGED <<txn, txn_failed, drew>>
           ELSE IF ~CheckThreshold(true_count)
           THEN /\ outcome' = [outcome EXCEPT ![p] = "below"]
                /\ UNCHANGED <<txn, txn_failed, drew>>
           ELSE IF txn_failed
           THEN /\ outcome' = [outcome EXCEPT ![p] = "error"]
                /\ UNCHANGED <<txn, txn_failed, drew>>
           ELSE IF fail = "select"
           THEN /\ outcome' = [outcome EXCEPT ![p] = "error"]
                /\ txn_failed' = AbortsTransaction
                /\ UNCHANGED <<txn, drew>>
           ELSE IF last_published # NoRow /\ last_published.true_count = true_count
           THEN /\ outcome' = [outcome EXCEPT ![p] = "reused"]
                /\ txn' = [txn EXCEPT ![p] = reuse]
                /\ UNCHANGED <<txn_failed, drew>>
           ELSE /\ drew' = drew \cup {p}
                /\ IF fail = "check"
                   THEN /\ outcome' = [outcome EXCEPT ![p] = "error"]
                        /\ UNCHANGED <<txn, txn_failed>>
                   ELSE IF ~HasBudget(p)
                   THEN /\ outcome' = [outcome EXCEPT ![p] = "locked"]
                        /\ UNCHANGED <<txn, txn_failed>>
                   ELSE IF fail = "deduct"
                   THEN /\ outcome' = [outcome EXCEPT ![p] = "error"]
                        /\ txn' = [txn EXCEPT ![p] = fresh]
                        /\ txn_failed' = AbortsTransaction
                   ELSE /\ outcome' = [outcome EXCEPT ![p] = "new"]
                        /\ txn' = [txn EXCEPT ![p] =
                              [fresh EXCEPT !.item =
                                  DoDeduct(TotalUsedWith(p, window_id, fresh),
                                           window_id, EPSILON_PER_QUERY)]]
                        /\ UNCHANGED txn_failed
    /\ UNCHANGED <<mech, lifetime_cap, fider, store, pc, window_id, fresh_commits>>

\* conn.commit() after the loop: the transaction ends, applied or rolled back
TickCommit ==
    /\ pc = "loop"
    /\ active_posts = {}
    /\ pc' = "committed"
    /\ IF txn_failed
       THEN UNCHANGED <<dp_releases, dp_items, fresh_commits>>
       ELSE /\ dp_releases' =
                 [p \in Posts |->
                    IF txn[p] = NoWrite THEN dp_releases[p]
                    ELSE [dp_releases[p] EXCEPT
                            ![window_id] = Upsert(dp_releases[p][window_id], txn[p])]]
            /\ dp_items' =
                 [p \in Posts |->
                    IF txn[p] # NoWrite /\ txn[p].item # NoRow
                    THEN txn[p].item ELSE dp_items[p]]
            /\ fresh_commits' =
                 [p \in Posts |->
                    IF txn[p] # NoWrite /\ txn[p].kind = "new"
                       /\ fresh_commits[p] <= lifetime_cap
                    THEN fresh_commits[p] + 1 ELSE fresh_commits[p]]
    /\ txn' = [p \in Posts |-> NoWrite]
    /\ txn_failed' = FALSE
    /\ UNCHANGED <<mech, lifetime_cap, fider, release_windows, ended, window_id, active_posts,
                   outcome, drew>>

\* UPDATE release_windows SET status = 'closed' WHERE window_id = w
CloseWindowNot(w) == release_windows
CloseWindow(w) == [release_windows EXCEPT ![w].status = "closed"]

\* Step 5: UPDATE release_windows SET status = 'closed'; commit
TickCloseWindow ==
    /\ pc = "committed"
    /\ pc' = "closed"
    /\ release_windows' = CloseWindow(window_id)
    /\ ended' = ended \ {window_id}
    /\ UNCHANGED <<mech, lifetime_cap, fider, dp_releases, dp_items, window_id, active_posts, txn,
                   txn_failed, outcome, drew, fresh_commits>>

\* Step 7: create the next window; the tick returns.
TickNewWindow ==
    /\ pc = "closed"
    /\ CreateNewWindow
    /\ IdleTick
    /\ UNCHANGED <<mech, lifetime_cap, fider, dp_releases, dp_items, fresh_commits>>

\* The tick is interrupted (the process stops, or a commit or the window
\* UPDATE raises out of the job): what it has not committed is lost.
TickInterrupted ==
    /\ pc # "idle"
    /\ IdleTick
    /\ UNCHANGED <<mech, lifetime_cap, fider, store, fresh_commits>>

\* ------------------------------------------------------------ specification
\* the sidecar store empty and no tick running
InitStore ==
    /\ release_windows = <<>>
    /\ ended = {}
    /\ dp_releases = [p \in Posts |-> [w \in WindowIds |-> NoRow]]
    /\ dp_items = [p \in Posts |-> NoRow]
    /\ pc = "idle"
    /\ window_id = 0
    /\ active_posts = {}
    /\ txn = [p \in Posts |-> NoWrite]
    /\ txn_failed = FALSE
    /\ outcome = [p \in Posts |-> "none"]
    /\ drew = {}
    /\ fresh_commits = [p \in Posts |-> 0]

\* dp_mechanism = DPMechanism() of api.py and of the tick
InitDefaultMechanism ==
    /\ dp_mechanism = DPMechanismInit(Null, Null, Null)
    /\ returned = NoCall

Init ==
    /\ InitDefaultMechanism
    /\ lifetime_cap \in 1..MaxCap
    /\ fider \in {f \in [Posts -> Counts] : \A p \in Posts \ SpecPosts : f[p] = 0}
    /\ InitStore

Next ==
    \/ \E p \in SpecPosts, c \in Counts : VoteChange(p, c)
    \/ \E w \in WindowIds : Expire(w)
    \/ \E p \in SpecPosts : GetDpCount(p)
    \/ \E p \in SpecPosts : GetBudgetInfo(p)
    \/ \E p \in SpecPosts, w \in 1..Len(release_windows), e \in {0, EPSILON_PER_QUERY} :
          DeductBudget(p, w, e)
    \/ TriggerSkipped
    \/ (Len(release_windows) < MaxWindows /\ TickBootstrap)
    \/ TickStart
    \/ \E p \in SpecPosts, fail \in Failures, noise \in Noise : TickPost(p, fail, noise)
    \/ TickCommit
    \/ TickCloseWindow
    \/ (Len(release_windows) < MaxWindows /\ TickNewWindow)
    \/ TickInterrupted

Spec == Init /\ [][Next]_vars

\* ------------------------------------------------- the worked scenario
\* One tracked item under a lifetime cap of 2.0 (four charges of 0.5); the
\* tick that processes window k reads the k-th count of the scenario.
ScenarioCount(k) ==
    ScenarioCounts[IF k < Len(ScenarioCounts) THEN k ELSE Len(ScenarioCounts)]

InitScenario ==
    /\ InitDefaultMechanism
    /\ lifetime_cap = 4 * EPSILON_PER_QUERY
    /\ fider = [p \in Posts |-> IF p = 1 THEN ScenarioCounts[1] ELSE 0]
    /\ InitStore

\* between two ticks the votes move to the count the next tick is to read
ScenarioVote ==
    /\ pc = "idle"
    /\ ActiveWindows # {}
    /\ VoteChange(1, ScenarioCount(Max(ActiveWindows)))

NextScenario ==
    \/ GetDpCount(1)
    \/ ScenarioVote
    \/ (Len(release_windows) < Len(ScenarioCounts) /\ TickBootstrap)
    \/ ( /\ HasAnyReleases(1)
         /\ ActiveWindows # {}
         /\ fider[1] = ScenarioCount(Max(ActiveWindows))
         /\ TickStart )
    \/ \E noise \in Noise : TickPost(1, "none", noise)
    \/ TickCommit
    \/ TickCloseWindow
    \/ (Len(release_windows) < Len(ScenarioCounts) /\ TickNewWindow)

SpecScenario == InitScenario /\ [][NextScenario]_vars

\* ------------------------------------- ticks over several tracked items
\* Complete ticks (never interrupted) over IsoPosts posts, each loop
\* iteration failing or not at one of its calls.
InitIso ==
    /\ InitDefaultMechanism
    /\ lifetime_cap = MaxCap
    /\ fider \in [Posts -> {THRESHOLD, MaxCount}]
    /\ InitStore

NextIso ==
    \/ \E p \in Posts : GetDpCount(p)
    \/ \E p \in Posts, c \in {THRESHOLD, MaxCount} : VoteChange(p, c)
    \/ (Len(release_windows) < MaxWindows /\ TickBootstrap)
    \/ TickStart
    \/ \E p \in Posts, fail \in Failures, noise \in Noise : TickPost(p, fail, noise)
    \/ TickCommit
    \/ TickCloseWindow
    \/ (Len(release_windows) < MaxWindows /\ TickNewWindow)

SpecIso == InitIso /\ [][NextIso]_vars

\* ------------------------------------------------ the noise mechanism alone
\* the arguments a caller may pass: None, or a number (epsilon and
\* sensitivity non-positive ones included)
ThresholdArgs == {Null} \cup {<<t>> : t \in 0..MaxCount}
EpsilonArgs == {Null} \cup {<<e>> : e \in (0 - EPSILON_PER_QUERY)..(2 * EPSILON_PER_QUERY)}
SensitivityArgs == {Null} \cup {<<s>> : s \in 0..2}
\* noisy counts around zero (the noise can make them negative) and of
\* counts large enough to clear the margin
NoisyCounts ==
    {AddLaplaceNoise(c, n) - 100 * MaxCount : c \in Counts, n \in Noise}
    \cup {AddLaplaceNoise(10 * c, n) : c \in Counts, n \in Noise}

Construct(threshold, epsilon, sensitivity) ==
    /\ dp_mechanism' = DPMechanismInit(threshold, epsilon, sensitivity)
    /\ returned' = [op |-> "__init__",
                    args |-> [threshold |-> threshold, epsilon |-> epsilon,
                              sensitivity |-> sensitivity],
                    result |-> "constructed"]
    /\ UNCHANGED <<lifetime_cap, fider, store, tick, fresh_commits>>

CallAddLaplaceNoise(true_count, noise) ==
    /\ returned' = [op |-> "add_laplace_noise", args |-> <<true_count>>,
                    result |-> SelfAddLaplaceNoise(dp_mechanism, true_count, noise)]
    /\ UNCHANGED <<dp_mechanism, lifetime_cap, fider, store, tick, fresh_commits>>

CallConfidenceInterval(noisy_count) ==
    /\ returned' = [op |-> "calculate_confidence_interval", args |-> <<noisy_count>>,
                    result |-> SelfConfidenceInterval(dp_mechanism, noisy_count)]
    /\ UNCHANGED <<dp_mechanism, lifetime_cap, fider, store, tick, fresh_commits>>

InitMech ==
    /\ InitDefaultMechanism
    /\ lifetime_cap = MaxCap
    /\ fider = [p \in Posts |-> 0]
    /\ InitStore

NextMech ==
    \/ \E t \in ThresholdArgs, e \in EpsilonArgs, s \in SensitivityArgs : Construct(t, e, s)
    \/ \E c \in Counts, n \in Noise : CallAddLaplaceNoise(c, n)
    \/ \E x \in NoisyCounts : CallConfidenceInterval(x)

SpecMech == InitMech /\ [][NextMech]_vars

\* ------------------------------------------------ the budget tracker's calls
\* The tracker called from outside the tick, each call on a connection of
\* its own, between and during complete ticks; returned records the call.
EpsilonNeeded == 0..MaxCap

CallCheckBudget(p, epsilon_needed) ==
    /\ returned' = [op |-> "check_budget", args |-> <<p, epsilon_needed>>,
                    result |-> CheckBudget(p, epsilon_needed)]
    /\ UNCHANGED <<dp_mechanism, lifetime_cap, fider, store, tick, fresh_commits>>

CallIsLocked(p) ==
    /\ returned' = [op |-> "is_locked", args |-> <<p>>, result |-> IsLocked(p)]
    /\ UNCHANGED <<dp_mechanism, lifetime_cap, fider, store, tick, fresh_commits>>

\* deduct_budget(p, w, epsilon_used) with conn=None: _do_deduct runs on a new
\* connection, returns epsilon_remaining, and the connection is closed.
CallDeductBudget(p, w, epsilon_used) ==
    /\ dp_items' = IF DeductCommits
                   THEN [dp_items EXCEPT ![p] = DoDeduct(TotalUsed(p), w, epsilon_used)]
                   ELSE dp_items
    /\ returned' = [op |-> "deduct_budget", args |-> <<p, w, epsilon_used>>,
                    result |-> lifetime_cap
                               - DoDeduct(TotalUsed(p), w, epsilon_used).total_epsilon_spent]
    /\ UNCHANGED <<dp_mechanism, lifetime_cap, fider, release_windows, ended, dp_releases,
                   tick, fresh_commits>>

NextTracker ==
    \/ \E p \in SpecPosts, c \in Counts : VoteChange(p, c)
    \/ \E p \in SpecPosts : GetDpCount(p)
    \/ \E p \in SpecPosts, e \in EpsilonNeeded : CallCheckBudget(p, e)
    \/ \E p \in SpecPosts : CallIsLocked(p)
    \/ \E p \in SpecPosts, w \in 1..Len(release_windows), e \in {0, EPSILON_PER_QUERY} :
          CallDeductBudget(p, w, e)
    \/ (Len(release_windows) < MaxWindows /\ TickBootstrap)
    \/ TickStart
    \/ \E p \in SpecPosts, noise \in Noise : TickPost(p, "none", noise)
    \/ TickCommit
    \/ TickCloseWindow
    \/ (Len(release_windows) < MaxWindows /\ TickNewWindow)

SpecTracker == Init /\ [][NextTracker]_vars

\* ------------------------------------------- ticks that run to their end
\* The job's thread keeps running once the scheduler has started it: each
\* step of a started tick is eventually taken.  A tick is started only while
\* the run may still create the window that follows.
NextRotate ==
    \/ \E p \in SpecPosts : GetDpCount(p)
    \/ \E p \in SpecPosts, c \in Counts : VoteChange(p, c)
    \/ (Len(release_windows) < MaxWindows /\ TickBootstrap)
    \/ (Len(release_windows) < MaxWindows /\ TickStart)
    \/ \E p \in SpecPosts, fail \in Failures, noise \in Noise : TickPost(p, fail, noise)
    \/ TickCommit
    \/ TickCloseWindow
    \/ TickNewWindow

FairTick ==
    /\ WF_vars(\E p \in SpecPosts, fail \in Failures, noise \in Noise : TickPost(p, fail, noise))
    /\ WF_vars(TickCommit)
    /\ WF_vars(TickCloseWindow)
    /\ WF_vars(TickNewWindow)

SpecRotate == Init /\ [][NextRotate]_vars /\ FairTick

\* ------------------------------------------------------ the queries
\* get_dp_count called between and during complete ticks, windows passing
\* their end time; returned records the call: the window it resolved, whether
\* the post had a release row, the true count in Fider, and the response.
CallGetDpCount(p) ==
    /\ dp_releases' =
         IF GetCurrentWindow # 0 /\ ~HasAnyReleases(p) /\ CheckThreshold(fider[p])
         THEN [dp_releases EXCEPT ![p][GetCurrentWindow] = DraftRow(fider[p])]
         ELSE dp_releases
    /\ returned' = [op |-> "get_dp_count", args |-> <<p>>,
                    current_window_id |-> GetCurrentWindow,
                    has_any_releases |-> HasAnyReleases(p),
                    true_count |-> fider[p],
                    result |-> GetDpCountResponse(p, fider[p])]
    /\ UNCHANGED <<dp_mechanism, lifetime_cap, fider, release_windows, ended, dp_items, tick,
                   fresh_commits>>

NextApi ==
    \/ \E p \in SpecPosts, c \in Counts : VoteChange(p, c)
    \/ \E w \in WindowIds : Expire(w)
    \/ \E p \in SpecPosts : CallGetDpCount(p)
    \/ (Len(release_windows) < MaxWindows /\ TickBootstrap)
    \/ TickStart
    \/ \E p \in SpecPosts, noise \in Noise : TickPost(p, "none", noise)
    \/ TickCommit
    \/ TickCloseWindow
    \/ (Len(release_windows) < MaxWindows /\ TickNewWindow)

SpecApi == Init /\ [][NextApi]_vars

\* ------------------------------------------- from a query to a release
\* Complete ticks without database errors, started again and again by the
\* scheduler's interval trigger.  A post is queried only while the run may
\* still start the tick that follows the query.
NextPublish ==
    \/ \E p \in SpecPosts, c \in Counts : VoteChange(p, c)
    \/ \E w \in WindowIds : Expire(w)
    \/ \E p \in SpecPosts : (Len(release_windows) < MaxWindows - 1 /\ GetDpCount(p))
    \/ (Len(release_windows) < MaxWindows /\ TickBootstrap)
    \/ (Len(release_windows) < MaxWindows /\ TickStart)
    \/ \E p \in SpecPosts, noise \in Noise : TickPost(p, "none", noise)
    \/ TickCommit
    \/ TickCloseWindow
    \/ TickNewWindow

FairTrigger == WF_vars(Len(release_windows) < MaxWindows /\ TickStart)

SpecPublish == Init /\ [][NextPublish]_vars /\ FairTick /\ FairTrigger

\* ------------------------------------------------------------------ claims

\* the response get_dp_count(p) returns in this state
Response(p) == GetDpCountResponse(p, fider[p])

ChargedWindows(p) ==
    {w \in WindowIds : IsPublished(p, w) /\ dp_releases[p][w].epsilon_used > 0}

C2_BudgetConservation ==
    \A p \in Posts :
        /\ TotalUsed(p) <= lifetime_cap
        /\ outcome[p] = "locked" => (txn[p] = NoWrite /\ IsLocked(p))

C2_Witness ==
    \E p \in Posts :
        /\ outcome[p] = "locked"
        /\ TotalUsed(p) > 0
        /\ fider[p] # LastPublished(p).true_count

C4_LockedFrozen ==
    [][\A p \in Posts : IsLocked(p) =>
        /\ TotalUsed(p)' = TotalUsed(p)
        /\ \A w \in WindowIds :
              dp_releases'[p][w] # dp_releases[p][w] =>
                  /\ dp_releases'[p][w].status = "published"
                  /\ dp_releases'[p][w].epsilon_used = 0
                  /\ dp_releases'[p][w].noisy_count = LastPublished(p).noisy_count
        /\ LastPublished(p) # NoRow
        /\ LastPublished(p)'.noisy_count = LastPublished(p).noisy_count
        /\ \A c \in Counts :
              GetDpCountResponse(p, c).noisy_count # Null =>
                  /\ GetDpCountResponse(p, c).noisy_count
                       = <<Round1(LastPublished(p).noisy_count[1])>>
                  /\ GetDpCountResponse(p, c).is_locked
                  /\ GetDpCountResponse(p, c).epsilon_used = 0]_vars

C4_Witness ==
    \E p \in Posts :
        /\ IsLocked(p)
        /\ outcome[p] = "locked"
        /\ pc = "closed"
        /\ fider[p] >= THRESHOLD
        /\ fider[p] # LastPublished(p).true_count
        /\ LastPublishedWindow(p) = window_id

\* C5: for every item, the number of fresh noise draws committed as the
\* noisy_count of a published release, times epsilonPerRelease, never
\* exceeds the lifetime cap.
C5_BoundedLeakage ==
    \A p \in Posts : fresh_commits[p] * EPSILON_PER_QUERY <= lifetime_cap

\* C6: every noisy_count get_dp_count returns is the (rounded) noisy_count of
\* a published release of the item, only the tick's commit writes a published
\* release, and every draft row has no noisy_count and epsilon_used = 0.
C6_ReadPathNeverRandomizes ==
    /\ [](\A p \in Posts :
            /\ \A w \in WindowIds :
                  dp_releases[p][w].status = "draft" =>
                      /\ dp_releases[p][w].noisy_count = Null
                      /\ dp_releases[p][w].epsilon_used = 0
            /\ \A c \in Counts :
                  GetDpCountResponse(p, c).noisy_count # Null =>
                      \E w \in WindowIds :
                          /\ IsPublished(p, w)
                          /\ GetDpCountResponse(p, c).noisy_count
                               = <<Round1(dp_releases[p][w].noisy_count[1])>>)
    /\ [][\A p \in Posts : \A w \in WindowIds :
            ( /\ dp_releases'[p][w] # dp_releases[p][w]
              /\ ~(pc = "loop" /\ pc' = "committed") )
            => ( /\ dp_releases[p][w] = NoRow
                 /\ dp_releases'[p][w].status = "draft"
                 /\ dp_releases'[p][w].noisy_count = Null
                 /\ dp_releases'[p][w].epsilon_used = 0 )]_vars

C6_Witness ==
    \E p \in Posts :
        /\ \E w \in WindowIds : dp_releases[p][w].status = "draft"
        /\ Response(p).noisy_count # Null
        /\ Response(p).noisy_count # <<LastPublished(p).noisy_count[1]>>

\* C7: for a fixed content of the store, the response of get_dp_count for an
\* item is the same whatever the item's current true count is.
C7_TimingResistance ==
    \A p \in Posts : \A c1, c2 \in Counts :
        GetDpCountResponse(p, c1) = GetDpCountResponse(p, c2)

C9_ThresholdSilence ==
    /\ [](/\ \A c \in Counts, n \in Noise :
                c < THRESHOLD =>
                    ReleaseCount(c, n)
                      = [noisy_count |-> Null, epsilon_used |-> 0,
                         meets_threshold |-> FALSE]
          /\ \A p \in Posts :
                outcome[p] = "below" => (txn[p] = NoWrite /\ p \notin drew))
    /\ [][\A p \in Posts :
            /\ ( /\ fider[p] < THRESHOLD
                 /\ pc = "loop" /\ pc' = "loop"
                 /\ p \in active_posts /\ p \notin active_posts' )
               => ( /\ outcome'[p] \in {"below", "error"}
                    /\ txn' = txn
                    /\ drew' = drew )
            /\ ( /\ fider[p] < THRESHOLD
                 /\ ~(pc = "loop" /\ pc' = "committed") )
               => ( /\ dp_releases'[p] = dp_releases[p]
                    /\ dp_items'[p] = dp_items[p] )
            /\ ( /\ outcome[p] = "below"
                 /\ pc = "loop" /\ pc' = "committed" )
               => ( /\ dp_releases'[p] = dp_releases[p]
                    /\ dp_items'[p] = dp_items[p] )]_vars

C9_Witness ==
    \E p \in Posts : outcome[p] = "below" /\ fider[p] < THRESHOLD /\ pc = "committed"

\* C10: in every committed state an item has a published release with
\* epsilon_used > 0 exactly if it has the ledger row that the deduction for
\* its latest such release wrote.
C10_PublishChargeAtomic ==
    \A p \in Posts :
        IF ChargedWindows(p) = {}
        THEN dp_items[p] = NoRow
        ELSE dp_items[p] = DoDeduct(TotalUsed(p), Max(ChargedWindows(p)),
                                    EPSILON_PER_QUERY)

C10_Witness ==
    \E p \in Posts :
        /\ outcome[p] = "error"
        /\ p \in drew
        /\ pc = "committed"
        /\ ChargedWindows(p) # {}

\* C11: when a tick is interrupted and run again, no deduction is committed
\* for an (item, window) that already holds a charged published release: the
\* deduct is applied at most once per (item, window).
C11_DeductOncePerWindow ==
    [][\A p \in Posts :
        ( /\ pc = "loop" /\ pc' = "committed"
          /\ ~txn_failed
          /\ txn[p] # NoWrite
          /\ txn[p].item # NoRow )
        => ~( /\ IsPublished(p, window_id)
              /\ dp_releases[p][window_id].epsilon_used > 0 )]_vars

\* C12: the window a tick processes is active until the tick closes it; the
\* tick's commit writes release rows of that window only, and a ledger row it
\* writes names that window: releases of closed windows are left unchanged.
C12_IdempotentPublish ==
    /\ [](pc \in {"loop", "committed"} => release_windows[window_id].status = "active")
    /\ [][(pc = "loop" /\ pc' = "committed") =>
            \A p \in Posts :
                /\ \A w \in WindowIds :
                      w # window_id => dp_releases'[p][w] = dp_releases[p][w]
                /\ dp_items'[p] # dp_items[p] =>
                      dp_items'[p].current_window_id = window_id]_vars

C12_Witness ==
    /\ pc = "idle"
    /\ Cardinality(ClosedWindows) >= 2
    /\ \E p \in Posts : \A w \in ClosedWindows :
          IsPublished(p, w) /\ dp_releases[p][w].epsilon_used > 0

\* C13: a release row that has status published never changes again.
C13_PublishedImmutable ==
    [][\A p \in Posts : \A w \in WindowIds :
        IsPublished(p, w) => dp_releases'[p][w] = dp_releases[p][w]]_vars

\* C14: at no time do two windows have status active, and a tick that
\* completes (the bootstrap tick included: both end by creating a window)
\* leaves exactly one window active.
C14_SingleActiveWindow ==
    /\ [](Cardinality(ActiveWindows) <= 1)
    /\ [][Len(release_windows') > Len(release_windows) =>
            Cardinality(ActiveWindows)' = 1]_vars

C14_Witness ==
    /\ pc = "idle"
    /\ Cardinality(ActiveWindows) = 1
    /\ Cardinality(ClosedWindows) = 2

\* C15: once the first window has been created, no state that a reader can
\* observe has zero active windows.
C15_NeverZeroActive ==
    release_windows # <<>> => ActiveWindows # {}

\* C16: an execution of publish_window_releases begins only when none is in
\* progress; a trigger that fires while a tick is running changes nothing.
C16_TicksExclusive ==
    /\ [][(TickStart \/ TickBootstrap) => pc = "idle"]_vars
    /\ [][pc # "idle" =>
            /\ window_id' \in {window_id, 0}
            /\ active_posts' \subseteq active_posts]_vars

C16_Witness ==
    /\ pc = "loop"
    /\ active_posts # {}
    /\ ~MaySubmit
    /\ ENABLED TriggerSkipped

\* C17: a step of get_dp_count or get_budget_info changes no window, no
\* published release and no ledger row; the only thing it may write is a
\* draft release row where the item had no row.
C17_ReadPathFrame ==
    [][(\E q \in Posts : GetDpCount(q) \/ GetBudgetInfo(q)) =>
        /\ release_windows' = release_windows
        /\ ended' = ended
        /\ dp_items' = dp_items
        /\ \A p \in Posts : \A w \in WindowIds :
              /\ IsPublished(p, w) => dp_releases'[p][w] = dp_releases[p][w]
              /\ dp_releases'[p][w] # dp_releases[p][w] =>
                    /\ dp_releases[p][w] = NoRow
                    /\ dp_releases'[p][w].status = "draft"]_vars

C17_Witness ==
    \E p \in Posts :
        /\ \E w \in WindowIds : dp_releases[p][w].status = "draft"
        /\ PublishedWindows(p) = {}
        /\ dp_items[p] = NoRow
        /\ pc = "idle"
        /\ Len(release_windows) = 1

\* C18: in the worked scenario (cap 2.0, counts 3, 3, 7, 7, 11, 15 at six
\* ticks) the item is charged 0.5, 0, 0.5, 0, 0.5; its remaining budget
\* after tick 4 is 1.0; it is locked from tick 5 on and not before; tick 6
\* writes no release and charges nothing, and get_dp_count returns the
\* noisy_count published at tick 5.
ScenarioCharges == <<1, 0, 1, 0, 1>>

C18_WorkedScenario ==
    /\ \A k \in 1..5 :
          /\ k \in ClosedWindows => IsPublished(1, k)
          /\ IsPublished(1, k) =>
                /\ dp_releases[1][k].true_count = ScenarioCounts[k]
                /\ dp_releases[1][k].epsilon_used = ScenarioCharges[k] * EPSILON_PER_QUERY
                /\ ScenarioCharges[k] = 0 =>
                      dp_releases[1][k].noisy_count = dp_releases[1][k - 1].noisy_count
                /\ ScenarioCharges[k] = 1 =>
                      \E n \in Noise :
                          dp_releases[1][k].noisy_count
                            = <<AddLaplaceNoise(ScenarioCounts[k], n)>>
    /\ (4 \in ClosedWindows /\ ~IsPublished(1, 5)) =>
          /\ CheckBudget(1, EPSILON_PER_QUERY).epsilon_remaining = 2 * EPSILON_PER_QUERY
          /\ GetLifetimeStats(1).epsilon_remaining = 2 * EPSILON_PER_QUERY
    /\ IsLocked(1) <=> IsPublished(1, 5)
    /\ dp_releases[1][6] = NoRow
    /\ TotalUsed(1) <= 3 * EPSILON_PER_QUERY
    /\ (window_id = 6 /\ 1 \notin active_posts) =>
          (outcome[1] = "locked" /\ txn[1] = NoWrite)
    /\ IsPublished(1, 5) =>
          /\ Response(1).noisy_count = <<Round1(dp_releases[1][5].noisy_count[1])>>
          /\ Response(1).is_locked

C18_Witness ==
    /\ 6 \in ClosedWindows
    /\ fider[1] = 15
    /\ outcome[1] = "locked"
    /\ IsLocked(1)
    /\ TotalUsed(1) = 3 * EPSILON_PER_QUERY

\* C19: an item whose own processing raises no error never ends a tick's
\* loop iteration with an error because of another item's, and the release
\* and the ledger row the tick wrote for it are applied by the tick's commit.
C19_FailureIsolation ==
    /\ [][\A p \in Posts :
            (\E n \in Noise : TickPost(p, "none", n)) => outcome'[p] # "error"]_vars
    /\ [][TickCommit =>
            \A p \in Posts :
                outcome[p] \in {"new", "reused"} =>
                    /\ dp_releases'[p][window_id]
                         = Upsert(dp_releases[p][window_id], txn[p])
                    /\ txn[p].item # NoRow => dp_items'[p] = txn[p].item]_vars

C19_Witness ==
    \E p, q \in Posts :
        /\ p # q
        /\ pc = "committed"
        /\ outcome[p] = "error"
        /\ outcome[q] = "new"
        /\ ~IsPublished(q, window_id)

\* C20: constructing DPMechanism with epsilon <= 0 is rejected; no object
\* holds a non-positive epsilon or a default put in place of one, and no
\* call of add_laplace_noise or calculate_confidence_interval runs with one.
C20_NonPositiveEpsilonRejected ==
    /\ ( /\ returned.op = "__init__"
         /\ returned.args.epsilon # Null
         /\ returned.args.epsilon[1] <= 0 )
       => returned.result = "ValueError"
    /\ dp_mechanism.epsilon > 0

C20_Witness ==
    /\ returned.op = "add_laplace_noise"
    /\ dp_mechanism.epsilon < 0
    /\ returned.result = "ValueError"

\* C21: for every noisy_count, negative ones included, and every epsilon > 0,
\* calculate_confidence_interval returns lower <= noisy_count <= upper and
\* lower >= 0.
C21_IntervalContains ==
    (returned.op = "calculate_confidence_interval" /\ dp_mechanism.epsilon > 0)
    => ( /\ returned.result.lower <= returned.args[1]
         /\ returned.args[1] <= returned.result.upper
         /\ returned.result.lower >= 0 )

\* C21 as amended: for every epsilon > 0 the interval has lower >= 0 and
\* noisy_count <= upper; lower <= noisy_count holds when noisy_count >= 0,
\* and for a negative noisy_count lower is 0, above the noisy_count.
C21_IntervalClipped ==
    (returned.op = "calculate_confidence_interval" /\ dp_mechanism.epsilon > 0)
    => ( /\ returned.result.lower >= 0
         /\ returned.args[1] <= returned.result.upper
         /\ returned.args[1] >= 0 => returned.result.lower <= returned.args[1]
         /\ returned.args[1] < 0 => returned.result.lower = 0 )

C21_Witness ==
    /\ returned.op = "calculate_confidence_interval"
    /\ dp_mechanism.epsilon > 0
    /\ returned.args[1] < 0
    /\ returned.result.lower > returned.args[1]

\* C22: in every state where no tick is in progress, an item is locked if and
\* only if the lifetime cap minus the sum of epsilon_used over its published
\* releases is less than EPSILON_PER_QUERY.
C22_LockMatchesArithmetic ==
    pc = "idle" =>
        \A p \in Posts :
            IsLocked(p) <=> (lifetime_cap - TotalUsed(p) < EPSILON_PER_QUERY)

\* C23: after every tick, for every item that has a ledger row, the row's
\* total_epsilon_spent equals the sum of epsilon_used over the item's
\* published releases, each charge counted once (so the remaining budget the
\* deduct returned, cap - total_epsilon_spent, is the cap minus that sum).
C23_LedgerTotalMatchesReleases ==
    pc = "idle" =>
        \A p \in Posts :
            dp_items[p] # NoRow => dp_items[p].total_epsilon_spent = TotalUsed(p)

\* C24: after a deduct_budget call that returned a remaining budget below
\* EPSILON_PER_QUERY, is_locked(item) is true, also when the item had no
\* ledger row before the call (the call creates the row).
C24_LockedAfterExhaustingDeduct ==
    (returned.op = "deduct_budget" /\ returned.result < EPSILON_PER_QUERY)
    => IsLocked(returned.args[1])

\* C25: for an item with no published release and no ledger row,
\* check_budget(item, e) returns (True, lifetime cap) for every e that does
\* not exceed the lifetime cap, and is_locked(item) returns False.
C25_FreshItemHasFullBudget ==
    [][\A p \in SpecPosts :
         (PublishedWindows(p) = {} /\ dp_items[p] = NoRow) =>
           /\ \A e \in EpsilonNeeded :
                (CallCheckBudget(p, e) /\ e <= lifetime_cap) =>
                    returned'.result = [has_budget |-> TRUE,
                                        epsilon_remaining |-> lifetime_cap]
           /\ CallIsLocked(p) => returned'.result = FALSE]_vars

C25_Witness ==
    /\ returned.op = "check_budget"
    /\ returned.args[2] = lifetime_cap
    /\ returned.result.has_budget
    /\ PublishedWindows(returned.args[1]) = {}
    /\ dp_items[returned.args[1]] = NoRow

\* C26: check_budget returns has_budget = False for a locked item whatever
\* epsilon is asked for, even when the lifetime cap minus the summed
\* published epsilon is at least that epsilon.
C26_StickyDenial ==
    [][\A p \in SpecPosts, e \in EpsilonNeeded :
         (CallCheckBudget(p, e) /\ IsLocked(p)) => ~returned'.result.has_budget]_vars

C26_Witness ==
    /\ returned.op = "check_budget"
    /\ IsLocked(returned.args[1])
    /\ returned.args[2] > 0
    /\ returned.result.epsilon_remaining >= returned.args[2]
    /\ ~returned.result.has_budget

\* C27: a tick that takes the unchanged-reuse branch for an item writes for
\* it a release with epsilon_used 0 and no ledger row (neither check_budget
\* nor deduct_budget is called, no noise is drawn), and its commit leaves the
\* item's ledger row and the sum of its published epsilon unchanged.
C27_ReuseLeavesLedger ==
    [][\A p \in Posts :
         /\ ( /\ pc = "loop" /\ pc' = "loop"
              /\ p \in active_posts /\ p \notin active_posts'
              /\ outcome'[p] = "reused" )
            => ( /\ txn'[p].kind = "reuse"
                 /\ txn'[p].item = NoRow
                 /\ txn'[p].release.epsilon_used = 0
                 /\ drew' = drew
                 /\ dp_items' = dp_items
                 /\ dp_releases' = dp_releases )
         /\ (TickCommit /\ outcome[p] = "reused")
            => ( /\ dp_items'[p] = dp_items[p]
                 /\ TotalUsed(p)' = TotalUsed(p) )]_vars

C27_Witness ==
    \E p \in Posts :
        /\ pc = "committed"
        /\ outcome[p] = "reused"
        /\ IsPublished(p, window_id)
        /\ dp_releases[p][window_id].epsilon_used = 0
        /\ dp_items[p] # NoRow
        /\ ~IsLocked(p)

\* C28: a tick that finds no window with status active creates exactly one
\* active window and returns: it writes no release row, draws no noise and
\* charges no item.
C28_BootstrapTick ==
    [][TickBootstrap =>
         ( /\ Len(release_windows') = Len(release_windows) + 1
           /\ ActiveWindows' = {Len(release_windows')}
           /\ pc' = "idle"
           /\ dp_releases' = dp_releases
           /\ dp_items' = dp_items
           /\ drew' = drew
           /\ txn' = txn )]_vars

C28_Witness ==
    /\ Len(release_windows) = 1
    /\ ActiveWindows = {1}
    /\ pc = "idle"
    /\ \A p \in Posts : ~HasAnyReleases(p) /\ dp_items[p] = NoRow

\* C29: every tick that finds an active window W terminates with W closed and
\* with a new active window whose window_id is greater than W's, whether its
\* items were below threshold, reused, newly drawn, budget-refused or failed
\* with an error.
C29_TickRotatesWindow ==
    \A w \in WindowIds :
        (pc = "loop" /\ window_id = w)
        ~> (pc = "idle" /\ w \in ClosedWindows /\ \E n \in ActiveWindows : n > w)

C29_Witness ==
    /\ pc = "idle"
    /\ \E w \in ClosedWindows :
          /\ \E n \in ActiveWindows : n > w
          /\ \E p \in Posts : HasAnyReleases(p) /\ ~IsPublished(p, w)

\* C30: get_current_window returns None only when no release window has ever
\* been created; in every other state it returns the active window whose end
\* time has not passed if there is one, and otherwise the closed window with
\* the greatest window_id.
C30_CurrentWindowOrNone ==
    LET live == {w \in ActiveWindows : w \notin ended}
    IN  /\ GetCurrentWindow = 0 => Len(release_windows) = 0
        /\ live # {} => GetCurrentWindow \in live
        /\ (live = {} /\ ClosedWindows # {}) => GetCurrentWindow = Max(ClosedWindows)

\* C31: for an unlocked item that has at least one release row, get_dp_count
\* returns the published release of the current window with is_stale false
\* when that row exists; otherwise the item's published release with the
\* greatest window_id, tagged is_stale; otherwise no value.
C31_CurrentElseStale ==
    \A p \in Posts :
        (HasAnyReleases(p) /\ ~IsLocked(p)) =>
            IF GetCurrentWindow # 0 /\ IsPublished(p, GetCurrentWindow)
            THEN /\ Response(p).noisy_count
                      = <<Round1(dp_releases[p][GetCurrentWindow].noisy_count[1])>>
                 /\ ~Response(p).is_stale
            ELSE IF PublishedWindows(p) # {}
            THEN /\ Response(p).noisy_count = <<Round1(LastPublished(p).noisy_count[1])>>
                 /\ Response(p).is_stale
            ELSE Response(p).noisy_count = Null

\* C32: every get_dp_count call that resolves a current window, whatever it
\* returns, leaves a release row for the item in that window (the draft it
\* upserts with the item's current true count).
C32_QueryRecordsDraft ==
    (returned.op = "get_dp_count" /\ returned.current_window_id # 0)
    => dp_releases[returned.args[1]][returned.current_window_id] # NoRow

\* C33: after get_dp_count has been called for a post that had no release
\* row, the post is in the tracked set the next tick enumerates, whether or
\* not its true count met the threshold at the time of the query.
C33_QueriedPostIsTracked ==
    ( /\ returned.op = "get_dp_count"
      /\ returned.current_window_id # 0
      /\ ~returned.has_any_releases )
    => returned.args[1] \in TrackedPosts

\* C34: within a tick, add_laplace_noise is called for an item only if its
\* true count differs from its last published true_count (or it has no
\* published release) and the budget check for it has succeeded; no draw is
\* made for a locked or budget-exhausted item.
C34_DrawOnlyAfterBudgetCheck ==
    [][\A p \in Posts :
         (p \in drew' /\ p \notin drew) =>
             /\ LastPublished(p) = NoRow \/ LastPublished(p).true_count # fider[p]
             /\ CheckBudget(p, EPSILON_PER_QUERY).has_budget
             /\ ~IsLocked(p)]_vars

\* C35: once get_dp_count has added an item to tracking, the first tick that
\* starts afterwards enumerates it and, if it reads a true count that meets
\* the threshold and the budget suffices, commits a published release for
\* it; so a tracked item is eventually published unless a tick found it
\* below the threshold (as long as the run may still start a tick), and
\* every query after such a tick returns a noisy_count for it.
C35_EventualPublication ==
    /\ [][TickStart => \A p \in Posts : HasAnyReleases(p) => p \in active_posts']_vars
    /\ [][TickCommit =>
            \A p \in Posts :
                (outcome[p] \notin {"none", "below", "locked"})
                => IsPublished(p, window_id)']_vars
    /\ [](\A p \in Posts :
            (PublishedWindows(p) = {} /\ lifetime_cap >= EPSILON_PER_QUERY)
            => outcome[p] # "locked")
    /\ \A p \in SpecPosts :
          ( /\ HasAnyReleases(p)
            /\ PublishedWindows(p) = {}
            /\ Len(release_windows) < MaxWindows )
          ~> (PublishedWindows(p) # {} \/ outcome[p] = "below")
    /\ [](\A p \in Posts :
            (pc = "idle" /\ PublishedWindows(p) # {})
            => Response(p).noisy_count # Null)

C35_Witness ==
    \E p \in Posts :
        /\ pc = "idle"
        /\ Cardinality(PublishedWindows(p)) = 1
        /\ ClosedWindows # {}
        /\ Response(p).noisy_count # Null

\* C36: whenever get_dp_count returns a noisy_count for an item, it is,
\* rounded to one decimal, the noisy_count of the item's published release
\* with the greatest window_id at that moment, whether the response is
\* tagged current, stale or locked (the release the tick compares against).
C36_ReturnsLastPublished ==
    \A p \in Posts :
        Response(p).noisy_count # Null
        => /\ LastPublished(p) # NoRow
           /\ Response(p).noisy_count = <<Round1(LastPublished(p).noisy_count[1])>>

\* C37: all release rows and ledger rows written by one tick become visible
\* in one commit: published rows and ledger rows change only at the tick's
\* commit, which applies every write of the tick at once; an item's ledger
\* row is never visible without the published, charged release of the
\* window it names, nor a charged release without the item's ledger row.
C37_TickWritesAtomic ==
    /\ [][\A p \in Posts :
            /\ ~TickCommit =>
                 /\ dp_items'[p] = dp_items[p]
                 /\ \A w \in WindowIds :
                      (IsPublished(p, w) \/ IsPublished(p, w)')
                      => dp_releases'[p][w] = dp_releases[p][w]
            /\ (TickCommit /\ ~txn_failed /\ txn[p] # NoWrite) =>
                 /\ IsPublished(p, window_id)'
                 /\ txn[p].item # NoRow => dp_items'[p] = txn[p].item]_vars
    /\ [](\A p \in Posts :
            /\ dp_items[p] # NoRow =>
                 /\ IsPublished(p, dp_items[p].current_window_id)
                 /\ dp_releases[p][dp_items[p].current_window_id].epsilon_used > 0
            /\ ChargedWindows(p) # {} => dp_items[p] # NoRow)

C37_Witness ==
    /\ pc = "committed"
    /\ \A p \in Posts : outcome[p] = "new" /\ IsPublished(p, window_id)
    /\ \E p \in Posts : IsLocked(p) /\ dp_items[p].current_window_id = window_id

\* C38: whenever no tick is in progress, no active window holds a published
\* release, so every noisy_count get_dp_count returns for an unlocked item
\* while the active window has not passed its end time is tagged is_stale.
C38_ActiveWindowUnpublished ==
    pc = "idle" =>
        \A p \in Posts :
            /\ \A w \in ActiveWindows : ~IsPublished(p, w)
            /\ ( /\ ~IsLocked(p)
                 /\ ActiveWindows \ ended # {}
                 /\ Response(p).noisy_count # Null )
               => Response(p).is_stale

\* C39: whenever get_lifetime_stats reports is_locked = true for an item, it
\* reports queries_remaining = 0 and an epsilon_remaining below
\* EPSILON_PER_QUERY for it.
C39_LockedStatsExhausted ==
    \A p \in Posts :
        GetLifetimeStats(p).is_locked
        => /\ GetLifetimeStats(p).queries_remaining = 0
           /\ GetLifetimeStats(p).epsilon_remaining < EPSILON_PER_QUERY

====
